---------------------------- MODULE Spec2Model ----------------------------
(***************************************************************************)
(* A model of the Herodotus quote extraction pipeline:                     *)
(*   src/src/parser.py              HerodotusParser, QuoteDeduplicator     *)
(*   src/scripts/extract_all_quotes.py   resolve_speaker (addressee fix)   *)
(* Text is modelled by TLA+ strings; a character is a string of length 1.  *)
(* Confidences are integers in units of 1/100000, so that every product    *)
(* the scorer forms (x0.95, x0.85, x1.1 of the catalog weights) is exact.  *)
(***************************************************************************)
EXTENDS Integers, Sequences, FiniteSets, TLC

VARIABLES
    pc,             \* position of main(): "split", "process", "save", "done"
    corpus,         \* the bounded family of book texts the run is drawn from
    character_data, \* the registry loaded from characters.json
    books,          \* HerodotusParser.books: numeral -> Book
    numeralIdx,     \* process_books: index into roman_numerals (0 before the loop)
    patternIdx,     \* extract_quotes: index into quote_patterns (0 = not in a book)
    matched,        \* number of pattern matches handled so far in the run
    seen_quotes,    \* extract_quotes' local set of (speaker, text) pairs
    book_stats,     \* extract_quotes' local counters
    stats,          \* HerodotusParser.stats
    dedup_seen,     \* QuoteDeduplicator.seen_quotes: text -> Quote
    dedup_debug,    \* QuoteDeduplicator.debug_info
    quotes,         \* HerodotusParser.quotes, the emitted list
    errors,         \* debug_info["errors"]
    last,           \* what the handling of the latest match did
    saved,          \* whether save_data has written the output
    extracted,      \* the numerals process_books has called extract_quotes
                    \* for, in the order of the calls
    script_pc,      \* extract_quotes_from_file: "open", "blocks", "returned", "raised"
    script_books,   \* its re.split of the content: the header numerals, in order
    script_i,       \* the block its loop is in (0 before the loop)
    script_matched, \* number of quotation matches it has handled
    script_quotes,  \* its list quotes
    parser_seen,    \* HerodotusParser.seen_quotes, as the caller of
                    \* is_duplicate_quote has set it: text -> Quote, in
                    \* insertion order
    merge_calls,    \* number of calls of is_duplicate_quote
    merge_last,     \* the latest call of is_duplicate_quote and its result
    text_headers,   \* the text given to split_into_books: the numerals of
                    \* its book headers, in the order of their positions
    segmented,      \* whether split_into_books has been called on it, and the
                    \* Books it has made of it
    populate_pc,    \* populate_quotes.main: "read", "generate", "written"
    raw_quotes,     \* what parse_quotes_file has returned
    selected_quotes, \* main's list selected_quotes
    final_quotes,   \* main's list final_quotes
    speaker_counts, \* main's dict speaker_counts
    fixed,          \* number of records the loop of the manual fixes has visited
    written         \* the list dumped to src/data/quotes.json

mainVars == <<pc, corpus, character_data, books, numeralIdx, patternIdx, matched,
              seen_quotes, book_stats, stats, dedup_seen, dedup_debug, quotes,
              errors, last, saved, extracted>>

scriptVars == <<script_pc, script_books, script_i, script_matched, script_quotes>>

mergeVars == <<parser_seen, merge_calls, merge_last>>

splitVars == <<text_headers, segmented>>

populateVars == <<populate_pc, raw_quotes, selected_quotes, final_quotes, speaker_counts,
                  fixed, written>>

vars == <<mainVars, scriptVars, mergeVars, splitVars, populateVars>>

-----------------------------------------------------------------------------
(* Strings.                                                                *)

\* the character at position i (1-based), "" outside the string
Ch(s, i) == IF i \in 1..Len(s) THEN SubSeq(s, i, i) ELSE ""

UpperAlpha == "ABCDEFGHIJKLMNOPQRSTUVWXYZ"
LowerAlpha == "abcdefghijklmnopqrstuvwxyz"
DigitAlpha == "0123456789"

CharsOf(s) == {Ch(s, i) : i \in 1..Len(s)}
UpperChars == CharsOf(UpperAlpha)
LowerChars == CharsOf(LowerAlpha)
DigitChars == CharsOf(DigitAlpha)
SpaceChars == {" ", "\n", "\t"}

IndexIn(alpha, c) == CHOOSE i \in 1..Len(alpha) : Ch(alpha, i) = c

\* str.lower() and str.upper(), character by character
LowerCh(c) == IF c \in UpperChars THEN Ch(LowerAlpha, IndexIn(UpperAlpha, c)) ELSE c
UpperCh(c) == IF c \in LowerChars THEN Ch(UpperAlpha, IndexIn(LowerAlpha, c)) ELSE c

\* the concatenation of the strings piece[lo], ..., piece[hi]
RECURSIVE ConcatRange(_, _, _)
ConcatRange(piece, lo, hi) ==
    IF lo > hi THEN ""
    ELSE IF lo = hi THEN piece[lo]
    ELSE LET mid == (lo + hi) \div 2
         IN  ConcatRange(piece, lo, mid) \o ConcatRange(piece, mid + 1, hi)

Concat(piece) == ConcatRange(piece, 1, Len(piece))

Lower(s) == Concat([i \in 1..Len(s) |-> LowerCh(Ch(s, i))])
Upper(s) == Concat([i \in 1..Len(s) |-> UpperCh(Ch(s, i))])

\* Python's  sub in s
Contains(s, sub) ==
    \E i \in 1..(Len(s) - Len(sub) + 1) : SubSeq(s, i, i + Len(sub) - 1) = sub

\* any(sub in s for sub in subs)
ContainsAny(s, subs) == \E sub \in subs : Contains(s, sub)

StartsWith(s, p) == Len(s) >= Len(p) /\ SubSeq(s, 1, Len(p)) = p

\* str.count(c) for a single character c
CountCh(s, c) == Cardinality({i \in 1..Len(s) : Ch(s, i) = c})

\* str.isupper(): at least one cased character and no lowercase one
IsUpper(s) ==
    /\ \E i \in 1..Len(s) : Ch(s, i) \in UpperChars
    /\ \A i \in 1..Len(s) : Ch(s, i) \notin LowerChars

\* the k-th smallest element of a finite set of integers
Nth(S, k) == CHOOSE x \in S : Cardinality({y \in S : y < x}) = k - 1

\* the positions where a maximal run of characters of (outside of) cs begins,
\* and the position where the run that begins at i ends
RunStarts(s, cs, inside) ==
    {i \in 1..Len(s) : /\ (Ch(s, i) \in cs) = inside
                       /\ (i = 1 \/ (Ch(s, i - 1) \in cs) # inside)}

RunEnd(s, cs, inside, i) ==
    CHOOSE e \in i..Len(s) :
        /\ \A j \in i..e : (Ch(s, j) \in cs) = inside
        /\ (e = Len(s) \/ (Ch(s, e + 1) \in cs) # inside)

\* str.split(): the maximal runs of non-whitespace characters
Words(s) ==
    LET starts == RunStarts(s, SpaceChars, FALSE)
    IN  [k \in 1..Cardinality(starts) |->
            SubSeq(s, Nth(starts, k), RunEnd(s, SpaceChars, FALSE, Nth(starts, k)))]

WordCount(s) == Cardinality(RunStarts(s, SpaceChars, FALSE))

\* ' '.join(words)
JoinWords(ws) ==
    Concat([k \in 1..(2 * Len(ws) - 1) |-> IF k % 2 = 1 THEN ws[(k + 1) \div 2] ELSE " "])

\* re.split over maximal runs of delimiters (r'[.!?]+'): the pieces before,
\* between and after the runs, empty pieces included
SplitRuns(s, delims) ==
    LET starts == RunStarts(s, delims, TRUE)
        n      == Cardinality(starts)
        from(k) == IF k = 1 THEN 1
                   ELSE RunEnd(s, delims, TRUE, Nth(starts, k - 1)) + 1
        to(k)   == IF k = n + 1 THEN Len(s) ELSE Nth(starts, k) - 1
    IN  [k \in 1..(n + 1) |-> SubSeq(s, from(k), to(k))]

\* str.strip(chars)
Strip(s, chars) ==
    LET keep == {i \in 1..Len(s) : Ch(s, i) \notin chars}
    IN  IF keep = {} THEN ""
        ELSE SubSeq(s, CHOOSE i \in keep : \A j \in keep : i <= j,
                       CHOOSE i \in keep : \A j \in keep : j <= i)

-----------------------------------------------------------------------------
(* Quote cleaning and validation.                                          *)

\* the number of leading characters of s that are digits
DigitRun(s) ==
    CHOOSE n \in 0..Len(s) :
        /\ \A i \in 1..n : Ch(s, i) \in DigitChars
        /\ Ch(s, n + 1) \notin DigitChars

\* the string s without the characters at the positions in drop
Without(s, drop) == Concat([i \in 1..Len(s) |-> IF i \in drop THEN "" ELSE Ch(s, i)])

\* the positions of character c in s
Positions(s, c) == {i \in 1..Len(s) : Ch(s, i) = c}

\* re.sub(r'\[\d+\]', '', s): a match is a "[", one or more digits and a "]"
RemoveRefs(s) ==
    LET digits(k) == DigitRun(SubSeq(s, k + 1, Len(s)))
        starts == {k \in Positions(s, "[") :
                      digits(k) >= 1 /\ Ch(s, k + digits(k) + 1) = "]"}
    IN  IF starts = {} THEN s
        ELSE Without(s, UNION {k..(k + digits(k) + 1) : k \in starts})

\* re.sub(r'\([^)]*\)', '', s): a match runs from a "(" to the first ")" after
\* it, so position i is dropped iff a "(" at or before i has no ")" between
\* it and i, and a ")" is at i or after it
RemoveParens(s) ==
    LET opens  == Positions(s, "(")
        closes == Positions(s, ")")
        open(i)  == \E k \in opens : k <= i /\ \A c \in closes : c < k \/ c >= i
        close(i) == \E e \in closes : e >= i
    IN  IF opens = {} \/ closes = {} THEN s
        ELSE Without(s, {i \in 1..Len(s) : open(i) /\ close(i)})

\* re.sub(r'\s+', ' ', s)
CollapseSpace(s) ==
    Concat([i \in 1..Len(s) |->
               IF Ch(s, i) \notin SpaceChars THEN Ch(s, i)
               ELSE IF i > 1 /\ Ch(s, i - 1) \in SpaceChars THEN "" ELSE " "])

QuoteStripChars == {"\"", "'", " ", "[", "]"}

\* HerodotusParser.clean_quote
clean_quote(quote) ==
    Strip(CollapseSpace(RemoveParens(RemoveRefs(quote))), QuoteStripChars)

EditorialMarkers == {"NOTE:", "BOOK", "CHAPTER", "MS", "MSS"}
StrongIndicators ==
    {"thus", "spoke", "said", "replied", "answered", "declared", "commanded", "asked"}
SentenceEnds == {".", "!", "?"}

\* re.match(r'^\d+\.|\[|\(', quote): the three alternatives, each at the start
EditorialStart(quote) ==
    \/ DigitRun(quote) >= 1 /\ Ch(quote, DigitRun(quote) + 1) = "."
    \/ StartsWith(quote, "[")
    \/ StartsWith(quote, "(")

\* the sentence completeness test of is_valid_quote
MostlyComplete(quote) ==
    LET sentences == SplitRuns(quote, SentenceEnds)
        complete  == {i \in 1..Len(sentences) : WordCount(sentences[i]) >= 3}
    IN  2 * Cardinality(complete) > Len(sentences)

\* a validation without the bracket count
is_valid_quote_no_brackets(quote) ==
    IF WordCount(quote) < 4 THEN FALSE
    ELSE IF IsUpper(quote) THEN FALSE
    ELSE IF EditorialStart(quote) THEN FALSE
    ELSE IF ContainsAny(Upper(quote), EditorialMarkers) THEN FALSE
    ELSE IF ContainsAny(Lower(quote), StrongIndicators) THEN TRUE
    ELSE IF MostlyComplete(quote) THEN TRUE
    ELSE WordCount(quote) >= 4

\* HerodotusParser.is_valid_quote
is_valid_quote(quote) ==
    IF WordCount(quote) < 4 THEN FALSE
    ELSE IF IsUpper(quote) \/ CountCh(quote, "[") # CountCh(quote, "]") THEN FALSE
    ELSE IF EditorialStart(quote) THEN FALSE
    ELSE IF ContainsAny(Upper(quote), EditorialMarkers) THEN FALSE
    ELSE IF ContainsAny(Lower(quote), StrongIndicators) THEN TRUE
    ELSE IF MostlyComplete(quote) THEN TRUE
    ELSE WordCount(quote) >= 4

-----------------------------------------------------------------------------
(* The character registry and speaker resolution.                          *)

\* Python's None, where a speaker token or a resolved speaker may be None;
\* no token, name or context word of the corpus is this string
None == "<None>"

\* the outcome of a call that raises instead of returning
KeyError == "<KeyError>"

Max(a, b) == IF a >= b THEN a ELSE b
Min(a, b) == IF a <= b THEN a ELSE b

SeqToSet(q) == {q[i] : i \in 1..Len(q)}

\* char_data.get("variations", []) of process_character_data
VariationsOrEmpty(char_data) ==
    IF "variations" \in DOMAIN char_data THEN char_data.variations ELSE << >>

\* HerodotusParser.process_character_data: self.characters holds every name
\* and every variation
characters(data) ==
    UNION {{data[i].name} \cup SeqToSet(VariationsOrEmpty(data[i])) : i \in 1..Len(data)}

\* the "name" of every record of character_data
CanonicalNames(data) == {data[i].name : i \in 1..Len(data)}

\* self.character_variations.get(name, [])
character_variations(data, name) ==
    IF \E i \in 1..Len(data) : data[i].name = name
    THEN LET last_i == CHOOSE i \in 1..Len(data) :
                          /\ data[i].name = name
                          /\ \A j \in (i + 1)..Len(data) : data[j].name # name
         IN  SeqToSet(VariationsOrEmpty(data[last_i]))
    ELSE {}

\* self.speech_indicators of HerodotusParser
speech_indicators ==
    {"said", "spoke", "replied", "answered", "declared", "made answer", "addressed",
     "responded", "called out", "cried", "exclaimed", "proclaimed", "told", "asked",
     "commanded", "ordered", "shouted", "stated"}

\* self.speech_indicators of DialogueContext
dialogue_indicators ==
    speech_indicators \cup
    {"message", "word", "continued", "began", "whispered", "remarked", "announced"}

HasIndicator(text, indicators) == ContainsAny(Lower(text), indicators)

\* one row of the longest-common-subsequence table
RECURSIVE FillRow(_, _, _, _)
FillRow(prev, c, b, acc) ==
    LET j == Len(acc) + 1
    IN  IF j > Len(b) THEN acc
        ELSE LET diag == IF j = 1 THEN 0 ELSE prev[j - 1]
                 left == IF j = 1 THEN 0 ELSE acc[j - 1]
                 val  == IF c = Ch(b, j) THEN diag + 1 ELSE Max(prev[j], left)
             IN  FillRow(prev, c, b, Append(acc, val))

RECURSIVE LcsRows(_, _, _)
LcsRows(a, b, prev) ==
    IF a = "" THEN (IF Len(b) = 0 THEN 0 ELSE prev[Len(b)])
    ELSE LcsRows(Tail(a), b, FillRow(prev, Head(a), b, << >>))

LcsLen(a, b) == LcsRows(a, b, [j \in 1..Len(b) |-> 0])

\* Python's round() of the fraction n/d: to the nearest integer, halves to even
RoundHalfEven(n, d) ==
    LET q == n \div d
        r == n % d
    IN  IF 2 * r > d THEN q + 1
        ELSE IF 2 * r < d THEN q
        ELSE IF q % 2 = 0 THEN q ELSE q + 1

\* thefuzz fuzz.ratio: the normalised indel similarity on a 0..100 scale,
\* 200 * LCS / (len1 + len2) rounded; 0 when an argument is None
fuzz_ratio(s1, s2) ==
    IF s1 = None \/ s2 = None THEN 0
    ELSE IF Len(s1) + Len(s2) = 0 THEN 100
    ELSE RoundHalfEven(200 * LcsLen(s1, s2), Len(s1) + Len(s2))

FuzzyThreshold == 85

\* resolve_speaker, the fuzzy step: the names a pass over the set
\* self.characters can end with as best_match.  A later name replaces the
\* best one only with a strictly greater score, so the result is the first
\* name of the pass that reaches the greatest score above the threshold; a
\* set is iterated in no fixed order, so any name with that score can be it.
FuzzyBest(speaker, data) ==
    LET scored == {n \in characters(data) : fuzz_ratio(speaker, n) > FuzzyThreshold}
    IN  {n \in scored : \A o \in scored : fuzz_ratio(speaker, o) <= fuzz_ratio(speaker, n)}

\* resolve_speaker, the variation step from record i of character_data on:
\* the canonical name, KeyError for a record without "variations", or None
RECURSIVE VariationStep(_, _, _, _)
VariationStep(speaker, context, data, i) ==
    IF i > Len(data) THEN None
    ELSE IF "variations" \notin DOMAIN data[i] THEN KeyError
    ELSE IF /\ speaker \in SeqToSet(data[i].variations)
            /\ HasIndicator(context, speech_indicators)
         THEN data[i].name
         ELSE VariationStep(speaker, context, data, i + 1)

ContextWindow == 10

\* resolve_speaker, the contextual step: the first word of the context that
\* is a known character with a speech indicator within the window around it
ContextStep(context, data) ==
    LET words == Words(context)
        near(i) == JoinWords(SubSeq(words, Max(1, i - ContextWindow),
                                    Min(Len(words), i + ContextWindow - 1)))
        hits == {i \in 1..Len(words) :
                    /\ words[i] \in characters(data)
                    /\ HasIndicator(near(i), speech_indicators)}
    IN  IF hits = {} THEN None
        ELSE words[CHOOSE i \in hits : \A j \in hits : i <= j]

\* HerodotusParser.resolve_speaker: the set of outcomes the call can have
\* (one outcome unless two names tie in the fuzzy step)
resolve_speaker(speaker, context, data) ==
    IF speaker \in characters(data) THEN {speaker}
    ELSE IF FuzzyBest(speaker, data) # {} THEN FuzzyBest(speaker, data)
    ELSE LET v == VariationStep(speaker, context, data, 1)
         IN  IF v # None THEN {v} ELSE {ContextStep(context, data)}

-----------------------------------------------------------------------------
(* The pattern catalog and the confidence scorer.                          *)

\* one unit of confidence: 1.0 is ConfUnit
ConfUnit == 100000

base_patterns == <<"split_quote", "basic_quote", "quote_first", "then_thus">>

\* get_delayed_attribution_patterns: (name, weight) in catalog order
delayed_attribution_patterns ==
    << [name |-> "delayed_attribution_action",   weight |-> 85000],
       [name |-> "delayed_attribution_state",    weight |-> 82000],
       [name |-> "delayed_attribution_temporal", weight |-> 80000],
       [name |-> "delayed_indirect_speech",      weight |-> 78000],
       [name |-> "group_dialogue",               weight |-> 75000],
       [name |-> "delayed_attribution_basic",    weight |-> 75000],
       [name |-> "conversation_marker",          weight |-> 80000],
       [name |-> "response_pattern",             weight |-> 85000] >>

\* self.quote_patterns: the base patterns, then the delayed ones
quote_patterns ==
    base_patterns \o
    [i \in 1..Len(delayed_attribution_patterns) |-> delayed_attribution_patterns[i].name]

PatternNames == SeqToSet(quote_patterns)

\* delayed_patterns.get(pattern_name, 0.75) of extract_quotes
DefaultDelayedWeight == 75000

delayed_weight(pattern_name) ==
    LET hits == {i \in 1..Len(delayed_attribution_patterns) :
                    delayed_attribution_patterns[i].name = pattern_name}
    IN  IF hits = {} THEN DefaultDelayedWeight
        ELSE delayed_attribution_patterns[CHOOSE i \in hits : \A j \in hits : j <= i].weight

SplitQuoteWeight == 95000
QuoteFirstWeight == 80000

\* extract_quotes, "Pattern-based confidence"
base_confidence(pattern_name) ==
    IF StartsWith(pattern_name, "delayed_attribution") THEN delayed_weight(pattern_name)
    ELSE IF pattern_name = "basic_quote" THEN ConfUnit
    ELSE IF pattern_name = "split_quote" THEN SplitQuoteWeight
    ELSE IF pattern_name = "quote_first" THEN QuoteFirstWeight
    ELSE ConfUnit

VariationPenalty == 95
ContextPenalty == 85
DialogueBoost == 110
Percent == 100

\* a scorer that takes the larger penalty off every candidate
resolution_penalty_always(confidence, speaker, resolved_speaker, data) ==
    (confidence * ContextPenalty) \div Percent

\* extract_quotes, "Speaker resolution penalties"
resolution_penalty(confidence, speaker, resolved_speaker, data) ==
    IF speaker # resolved_speaker
    THEN IF speaker \in character_variations(data, resolved_speaker)
         THEN (confidence * VariationPenalty) \div Percent
         ELSE (confidence * ContextPenalty) \div Percent
    ELSE confidence

StrongDialogueIndicators == {"answered", "replied", "made answer"}

\* extract_quotes, "Context-based adjustments"
context_boost(confidence, context_before) ==
    IF HasIndicator(context_before, StrongDialogueIndicators)
    THEN (confidence * DialogueBoost) \div Percent
    ELSE confidence

\* the confidence extract_quotes gives a candidate
score(pattern_name, speaker, resolved_speaker, context_before, data) ==
    context_boost(
        resolution_penalty(base_confidence(pattern_name), speaker, resolved_speaker, data),
        context_before)

-----------------------------------------------------------------------------
(* DialogueContext and QuoteDeduplicator.                                  *)

\* str.rfind(sub): the last position where sub occurs in s, 0 if none
RFind(s, sub) ==
    LET at == {i \in 1..(Len(s) - Len(sub) + 1) : SubSeq(s, i, i + Len(sub) - 1) = sub}
    IN  IF at = {} THEN 0 ELSE CHOOSE i \in at : \A j \in at : j <= i

\* DialogueContext.find_speaker_in_context on the window before the match:
\* the known name whose last occurrence is latest among those followed by a
\* speech indicator (of two names at one position the longer sorts last)
find_speaker_in_context(context, data) ==
    LET candidates ==
            {c \in characters(data) :
                /\ Contains(context, c)
                /\ HasIndicator(SubSeq(context, RFind(context, c), Len(context)),
                                dialogue_indicators)}
        later(c, d) == \/ RFind(context, c) > RFind(context, d)
                       \/ RFind(context, c) = RFind(context, d) /\ Len(c) >= Len(d)
    IN  IF candidates = {} THEN None
        ELSE CHOOSE c \in candidates : \A d \in candidates : later(c, d)

Quote(speaker, text, book, context_before, context_after, pattern_matched, confidence) ==
    [speaker |-> speaker, text |-> text, book |-> book,
     context_before |-> context_before, context_after |-> context_after,
     pattern_matched |-> pattern_matched, confidence |-> confidence]

\* dict[key] = value
Put(map, key, value) == (key :> value) @@ map

\* defaultdict(list)[key].append(item)
AppendTo(map, key, item) ==
    Put(map, key, IF key \in DOMAIN map THEN Append(map[key], item) ELSE <<item>>)

\* defaultdict(int)[key] += n
AddTo(map, key, n) ==
    Put(map, key, IF key \in DOMAIN map THEN map[key] + n ELSE n)

EmptyMap == [k \in {} |-> 0]

\* a deduplicator keyed on the text alone, whatever the book and the speaker
is_duplicate_text_only(quote, seen, debug) ==
    LET quote_text == Strip(quote.text, SpaceChars)
    IN  IF quote_text \in DOMAIN seen
        THEN [dup |-> TRUE, seen |-> seen, debug |-> debug]
        ELSE [dup |-> FALSE, seen |-> Put(seen, quote_text, quote), debug |-> debug]

\* a deduplicator that stores the candidate of another book in place of the
\* entry it holds
is_duplicate_cross_book_stored(quote, seen, debug) ==
    LET quote_text == Strip(quote.text, SpaceChars)
    IN  IF /\ quote_text \in DOMAIN seen
           /\ seen[quote_text].book = quote.book
           /\ \/ seen[quote_text].speaker = quote.speaker
              \/ quote.confidence < seen[quote_text].confidence
        THEN [dup |-> TRUE, seen |-> seen, debug |-> debug]
        ELSE [dup |-> FALSE, seen |-> Put(seen, quote_text, quote), debug |-> debug]

\* a deduplicator that keeps the stored entry against a candidate of equal
\* confidence
is_duplicate_tie_to_first(quote, seen, debug) ==
    LET quote_text == Strip(quote.text, SpaceChars)
    IN  IF quote_text \notin DOMAIN seen
        THEN [dup |-> FALSE, seen |-> Put(seen, quote_text, quote), debug |-> debug]
        ELSE IF seen[quote_text].book # quote.book
        THEN [dup |-> FALSE, seen |-> seen, debug |-> debug]
        ELSE IF \/ seen[quote_text].speaker = quote.speaker
                \/ quote.confidence <= seen[quote_text].confidence
        THEN [dup |-> TRUE, seen |-> seen, debug |-> debug]
        ELSE [dup |-> FALSE, seen |-> Put(seen, quote_text, quote), debug |-> debug]

\* QuoteDeduplicator.is_duplicate: what it returns, and seen_quotes and
\* debug_info as the call leaves them
is_duplicate(quote, seen, debug) ==
    LET quote_text == Strip(quote.text, SpaceChars)
    IN  IF quote_text \in DOMAIN seen
        THEN LET existing_quote == seen[quote_text]
             IN  IF existing_quote.speaker = quote.speaker /\ existing_quote.book = quote.book
                 THEN [dup |-> TRUE, seen |-> seen,
                       debug |-> AppendTo(debug, "exact_duplicates",
                                    [text |-> quote_text, speaker |-> quote.speaker,
                                     book |-> quote.book])]
                 ELSE IF existing_quote.book = quote.book
                 THEN IF quote.confidence < existing_quote.confidence
                      THEN [dup |-> TRUE, seen |-> seen,
                            debug |-> AppendTo(debug, "lower_confidence_duplicates",
                                        [text |-> quote_text,
                                         speaker1 |-> existing_quote.speaker,
                                         speaker2 |-> quote.speaker,
                                         confidence1 |-> existing_quote.confidence,
                                         confidence2 |-> quote.confidence])]
                      ELSE [dup |-> FALSE, seen |-> Put(seen, quote_text, quote),
                            debug |-> debug]
                 ELSE [dup |-> FALSE, seen |-> seen,
                       debug |-> AppendTo(debug, "cross_book_duplicates",
                                    [text |-> quote_text, book1 |-> existing_quote.book,
                                     book2 |-> quote.book])]
        ELSE [dup |-> FALSE, seen |-> Put(seen, quote_text, quote), debug |-> debug]

-----------------------------------------------------------------------------
(* The inputs of a run: the registry and the book texts, the latter given  *)
(* by the header numerals found and by what each pattern matches.          *)

MaxMatches == 3       \* matches handled in a run over the narrow corpus
MaxMatchesWide == 1   \* matches handled in a run over the wide corpus
MaxHeaders == 2       \* book headers in the text
MaxMatchesPaired == 2 \* matches handled in a run over the paired corpus

RegistryFull ==
    << [name |-> "Croesus", variations |-> <<"Kroisos">>],
       [name |-> "Solon",   variations |-> << >>] >>

\* a registry with a record that has no "variations" key
RegistryBare ==
    << [name |-> "Croesus", variations |-> <<"Kroisos">>],
       [name |-> "Solon"] >>

Registries == {RegistryFull, RegistryBare}

\* a registry with two characters whose names differ in one letter
RegistryTwins ==
    << [name |-> "Croesus",   variations |-> <<"Kroisos">>],
       [name |-> "Artabanos", variations |-> << >>],
       [name |-> "Artabazos", variations |-> << >>] >>

HeaderNumerals == {"I", "II", "X"}

HeaderSeqs == UNION {[1..n -> HeaderNumerals] : n \in 0..MaxHeaders}

ShortQuote == "Call no man happy"
LongQuote ==
    "Call no man happy until he is dead, for the god gives many a glimpse of blessedness and then overturns them utterly"

\* few inputs, several matches: what the deduplication sees in a run
NarrowCorpus ==
    [name        |-> "narrow",
     patterns    |-> {"basic_quote", "quote_first"},
     pairs       |-> {"Croesus", "Solon", "Then"} \X {LongQuote},
     split_pairs |-> {},
     contexts    |-> {"Then Solon replied"},
     registries  |-> Registries,
     headers     |-> HeaderSeqs,
     max_matches |-> MaxMatches]

WideTokens == {"Croesus", "Kroisos", "Croesuss", "Then"}
WideQuotes ==
    {ShortQuote, " Call no man (they say) happy [12] ", "call no man happy", "Not yet",
     "O king [be wise now"}

\* every pattern and many inputs, one match: what one candidate goes through
WideCorpus ==
    [name        |-> "wide",
     patterns    |-> PatternNames,
     pairs       |-> (WideTokens \X {ShortQuote}) \cup ({"Croesus"} \X WideQuotes),
     split_pairs |-> {"Call no"} \X {"man happy", "man"},
     contexts    |-> {"", "Then Solon replied"},
     registries  |-> {RegistryFull},
     headers     |-> {<<"I">>},
     max_matches |-> MaxMatchesWide]

SecondQuote == "Count no man blessed before his end"

\* a context that names two characters, each with a speech verb after it
TwoSpeakers == "Croesus spoke and Artabanos answered"

\* a direct and a delayed pattern, two matches: what a pair of candidates of
\* different patterns, and a token close to two names, go through
PairedCorpus ==
    [name        |-> "paired",
     patterns    |-> {"quote_first", "delayed_attribution_action"},
     pairs       |-> ({"Croesus"} \X {ShortQuote, SecondQuote})
                        \cup ({"Artabaros", "Then"} \X {ShortQuote}),
     split_pairs |-> {},
     contexts    |-> {"", "Thus having said this he rose", TwoSpeakers},
     registries  |-> {RegistryTwins},
     headers     |-> {<<"I">>},
     max_matches |-> MaxMatchesPaired]

Corpora == {NarrowCorpus, WideCorpus, PairedCorpus}

\* the text a pattern matches around its speaker and quotation groups
MatchLead(pattern_name) ==
    CASE pattern_name = "then_thus"      -> "Then "
      [] pattern_name = "group_dialogue" -> "they spoke to "
      [] OTHER                           -> ""

MatchGlue(pattern_name) ==
    CASE pattern_name = "basic_quote"                  -> ": "
      [] pattern_name = "then_thus"                    -> ": "
      [] pattern_name = "delayed_attribution_action"   -> " turning to him said "
      [] pattern_name = "delayed_attribution_state"    -> " being angry said "
      [] pattern_name = "delayed_attribution_temporal" -> " when he came said "
      [] pattern_name = "delayed_indirect_speech"      -> " sent a message "
      [] pattern_name = "group_dialogue"               -> " thus "
      [] pattern_name = "delayed_attribution_basic"    -> " said "
      [] pattern_name = "conversation_marker"          -> " in conversation "
      [] pattern_name = "response_pattern"             -> " gave this answer "
      [] OTHER                                         -> " "

\* the matches re.finditer can yield for a pattern over the corpus: groups 1
\* and 2, the whole match, and the text around it
MatchesFor(pattern_name, c) ==
    IF pattern_name \notin c.patterns THEN {}
    ELSE IF pattern_name = "split_quote"
    THEN {[g1 |-> x[1], g2 |-> x[2],
           text |-> "\"" \o x[1] \o "\", said he, \"" \o x[2] \o "\"",
           before |-> b, after |-> ""] :
             x \in c.split_pairs, b \in c.contexts}
    ELSE IF pattern_name = "quote_first"
    THEN {[g1 |-> x[2], g2 |-> x[1], text |-> "\"" \o x[2] \o "\" said " \o x[1],
           before |-> b, after |-> ""] :
             x \in c.pairs, b \in c.contexts}
    ELSE {[g1 |-> x[1], g2 |-> x[2],
           text |-> MatchLead(pattern_name) \o x[1] \o MatchGlue(pattern_name)
                        \o "\"" \o x[2] \o "\"",
           before |-> b, after |-> ""] :
             x \in c.pairs, b \in c.contexts}

-----------------------------------------------------------------------------
(* HerodotusParser.extract_quotes: the handling of one match.              *)

ErrorTextLimit == 100

\* "Extract quote based on pattern type"
ExtractGroups(pattern_name, m, data) ==
    IF pattern_name = "split_quote"
    THEN [quote |-> m.g1 \o " " \o m.g2, speaker |-> find_speaker_in_context(m.before, data)]
    ELSE IF pattern_name = "quote_first"
    THEN [quote |-> m.g1, speaker |-> m.g2]
    ELSE [speaker |-> m.g1, quote |-> m.g2]

\* DialogueContext.get_context
get_context(m) ==
    [before |-> Strip(m.before, SpaceChars), after |-> Strip(m.after, SpaceChars)]

\* what became of the match handled last: the groups extracted, the context
\* before it, and what the body of the loop made of them
Outcome(kind, pattern_name, m, speaker, resolved, quote, confidence) ==
    [outcome |-> kind, pattern |-> pattern_name, match |-> m.text,
     context |-> get_context(m).before, speaker |-> speaker, resolved |-> resolved,
     quote |-> quote, confidence |-> confidence]

\* a loop that never looks into the per-book set
already_seen_never(resolved_speaker, quote, seen) == FALSE

\* "if (resolved_speaker, quote) in seen_quotes"
already_seen(resolved_speaker, quote, seen) == <<resolved_speaker, quote>> \in seen

\* an except clause that records the whole match
on_exception_whole_match(st, pattern_name, m, error, speaker, quote) ==
    [st EXCEPT !.errors = Append(@, [pattern |-> pattern_name, error |-> error,
                                     text |-> m.text]),
               !.last = Outcome("error", pattern_name, m, speaker, None, quote, 0)]

\* the except clause: the error is recorded and the loop goes on
on_exception(st, pattern_name, m, error, speaker, quote) ==
    [st EXCEPT !.errors = Append(@, [pattern |-> pattern_name, error |-> error,
                                     text |-> SubSeq(m.text, 1, Min(ErrorTextLimit, Len(m.text)))]),
               !.last = Outcome("error", pattern_name, m, speaker, None, quote, 0)]

\* a loop that emits a candidate without adding its pair to the per-book set
store_quote_pair_not_added(st, pattern_name, m, speaker, q) ==
    LET d == is_duplicate(q, st.dedup_seen, st.dedup_debug)
    IN  IF d.dup
        THEN [st EXCEPT !.dedup_seen = d.seen, !.dedup_debug = d.debug,
                        !.last = Outcome("discarded", pattern_name, m, speaker, q.speaker,
                                         q.text, q.confidence)]
        ELSE [st EXCEPT !.dedup_seen = d.seen, !.dedup_debug = d.debug,
                        !.quotes = Append(@, q),
                        !.book_stats = AddTo(@, pattern_name \o "_success", 1),
                        !.last = Outcome("emitted", pattern_name, m, speaker, q.speaker,
                                         q.text, q.confidence)]

\* "Store quote": the candidate goes through the deduplicator and, unless it
\* is reported duplicate, into the per-book set and the emitted list
store_quote(st, pattern_name, m, speaker, q) ==
    LET d == is_duplicate(q, st.dedup_seen, st.dedup_debug)
    IN  IF d.dup
        THEN [st EXCEPT !.dedup_seen = d.seen, !.dedup_debug = d.debug,
                        !.last = Outcome("discarded", pattern_name, m, speaker, q.speaker,
                                         q.text, q.confidence)]
        ELSE [st EXCEPT !.dedup_seen = d.seen, !.dedup_debug = d.debug,
                        !.seen_quotes = @ \cup {<<q.speaker, q.text>>},
                        !.quotes = Append(@, q),
                        !.book_stats = AddTo(@, pattern_name \o "_success", 1),
                        !.last = Outcome("emitted", pattern_name, m, speaker, q.speaker,
                                         q.text, q.confidence)]

\* the body of the loop over the matches of a pattern, after the speaker has
\* been resolved to r
after_resolve(st, pattern_name, m, book_number, data, speaker, quote, r) ==
    IF r = KeyError
    THEN on_exception(st, pattern_name, m, "'variations'", speaker, quote)
    ELSE IF r = None \/ r = ""
    THEN [st EXCEPT !.book_stats = AddTo(@, "unresolved_speaker", 1),
                    !.last = Outcome("unresolved", pattern_name, m, speaker, None, quote, 0)]
    ELSE IF already_seen(r, quote, st.seen_quotes)
    THEN [st EXCEPT !.book_stats = AddTo(@, "duplicate", 1),
                    !.last = Outcome("duplicate", pattern_name, m, speaker, r, quote, 0)]
    ELSE LET context == get_context(m)
             confidence == score(pattern_name, speaker, r, context.before, data)
         IN  store_quote(st, pattern_name, m, speaker,
                         Quote(r, quote, book_number, context.before, context.after,
                               pattern_name, confidence))

\* the states the handling of match m of a pattern can leave (one, unless the
\* fuzzy step of resolve_speaker has a tie)
process_match(st, pattern_name, m, book_number, data) ==
    LET g     == ExtractGroups(pattern_name, m, data)
        quote == clean_quote(g.quote)
        st1   == [st EXCEPT !.book_stats = AddTo(@, pattern_name \o "_attempts", 1)]
    IN  IF ~is_valid_quote(quote)
        THEN {[st1 EXCEPT !.book_stats = AddTo(@, "invalid_quote", 1),
                          !.last = Outcome("invalid", pattern_name, m, g.speaker, None,
                                           quote, 0)]}
        ELSE {after_resolve(st1, pattern_name, m, book_number, data, g.speaker, quote, r) :
                 r \in resolve_speaker(g.speaker, get_context(m).before, data)}

-----------------------------------------------------------------------------
(* main(): split_into_books, process_books, save_data.                     *)

roman_numerals == <<"I", "II", "III", "IV", "V", "VI", "VII", "VIII", "IX">>

\* split_into_books on a text whose k-th header carries the numeral
\* headers[k]: self.books, keyed by numeral, a later header of a numeral
\* replacing the Book of an earlier one; no header at all raises nothing.
\* The content of a Book is text[start_pos:end_pos], given here by the
\* header where it starts and the header where it ends, Len(headers) + 1
\* for the end of the text.
split_into_books(headers) ==
    [n \in SeqToSet(headers) |->
        LET i == CHOOSE k \in 1..Len(headers) :
                     /\ headers[k] = n
                     /\ \A j \in (k + 1)..Len(headers) : headers[j] # n
        IN  [number |-> n, start_pos |-> i, end_pos |-> i + 1]]

\* of a Book the run reads the number; what its content holds is given by
\* the matches of the corpus
Numbered(bs) == [n \in DOMAIN bs |-> [number |-> bs[n].number]]

\* process_books: the numerals after position i that hold a Book
RemainingNumerals(i) ==
    {j \in (i + 1)..Len(roman_numerals) : roman_numerals[j] \in DOMAIN books}

State ==
    [seen_quotes |-> seen_quotes, book_stats |-> book_stats, dedup_seen |-> dedup_seen,
     dedup_debug |-> dedup_debug, quotes |-> quotes, errors |-> errors, last |-> last]

NoOutcome == [outcome |-> "none"]

\* the parser as HerodotusParser() leaves it
ParserStart ==
    /\ pc = "split"
    /\ books = EmptyMap
    /\ numeralIdx = 0
    /\ patternIdx = 0
    /\ matched = 0
    /\ seen_quotes = {}
    /\ book_stats = EmptyMap
    /\ stats = EmptyMap
    /\ dedup_seen = EmptyMap
    /\ dedup_debug = EmptyMap
    /\ quotes = << >>
    /\ errors = << >>
    /\ last = NoOutcome
    /\ saved = FALSE
    /\ extracted = << >>

\* extract_quotes_from_file before it is called
ScriptStart ==
    /\ script_pc = "open"
    /\ script_books = << >>
    /\ script_i = 0
    /\ script_matched = 0
    /\ script_quotes = << >>

\* HerodotusParser.__init__ sets no seen_quotes attribute
Absent == "<absent>"

NoCall == [via |-> "none"]

MergeStart ==
    /\ parser_seen = Absent
    /\ merge_calls = 0
    /\ merge_last = NoCall

\* split_into_books before it is called on a text of its own: self.books
\* is the empty dict of __init__
NotSegmented == [called |-> FALSE, books |-> << >>]

SplitStart ==
    /\ text_headers = << >>
    /\ segmented = NotSegmented

\* populate_quotes.main before it is called, with nothing to read
PopulateStart ==
    /\ populate_pc = "read"
    /\ raw_quotes = << >>
    /\ selected_quotes = << >>
    /\ final_quotes = << >>
    /\ speaker_counts = EmptyMap
    /\ fixed = 0
    /\ written = << >>

Init ==
    /\ corpus \in Corpora
    /\ character_data \in corpus.registries
    /\ ParserStart
    /\ ScriptStart
    /\ MergeStart
    /\ SplitStart
    /\ PopulateStart

SplitIntoBooks ==
    /\ pc = "split"
    /\ \E headers \in corpus.headers : books' = Numbered(split_into_books(headers))
    /\ pc' = "process"
    /\ UNCHANGED <<scriptVars, mergeVars, splitVars, populateVars, extracted>>
    /\ UNCHANGED <<corpus, character_data, numeralIdx, patternIdx, matched, seen_quotes,
                   book_stats, stats, dedup_seen, dedup_debug, quotes, errors, last, saved>>

\* process_books reaches the next numeral that holds a Book and calls
\* extract_quotes for it
EnterBook ==
    /\ pc = "process" /\ patternIdx = 0
    /\ RemainingNumerals(numeralIdx) # {}
    /\ numeralIdx' = CHOOSE j \in RemainingNumerals(numeralIdx) :
                         \A k \in RemainingNumerals(numeralIdx) : j <= k
    /\ patternIdx' = 1
    /\ seen_quotes' = {}
    /\ book_stats' = EmptyMap
    /\ extracted' = Append(extracted, roman_numerals[numeralIdx'])
    /\ UNCHANGED <<scriptVars, mergeVars, splitVars, populateVars>>
    /\ UNCHANGED <<pc, corpus, character_data, books, matched, stats, dedup_seen,
                   dedup_debug, quotes, errors, last, saved>>

\* extract_quotes handles the next match: one of the current pattern, or the
\* first one of a later pattern when the current one has no more
HandleMatch ==
    /\ pc = "process" /\ patternIdx >= 1
    /\ matched < corpus.max_matches
    /\ \E p \in patternIdx..Len(quote_patterns) :
       \E m \in MatchesFor(quote_patterns[p], corpus) :
       \E st \in process_match(State, quote_patterns[p], m, roman_numerals[numeralIdx],
                               character_data) :
          /\ patternIdx' = p
          /\ seen_quotes' = st.seen_quotes
          /\ book_stats' = st.book_stats
          /\ dedup_seen' = st.dedup_seen
          /\ dedup_debug' = st.dedup_debug
          /\ quotes' = st.quotes
          /\ errors' = st.errors
          /\ last' = st.last
    /\ matched' = matched + 1
    /\ UNCHANGED <<scriptVars, mergeVars, splitVars, populateVars, extracted>>
    /\ UNCHANGED <<pc, corpus, character_data, books, numeralIdx, stats, saved>>

\* "Log book statistics": the counters of the book are added to self.stats
merge_stats(all, numeral, book) ==
    LET keys == {numeral \o "_" \o k : k \in DOMAIN book}
        key(k) == numeral \o "_" \o k
    IN  [x \in (DOMAIN all) \cup keys |->
            (IF x \in DOMAIN all THEN all[x] ELSE 0)
            + (IF \E k \in DOMAIN book : key(k) = x
               THEN book[CHOOSE k \in DOMAIN book : key(k) = x] ELSE 0)]

\* no pattern has a further match: extract_quotes returns
EndBook ==
    /\ pc = "process" /\ patternIdx >= 1
    /\ patternIdx' = 0
    /\ stats' = merge_stats(stats, roman_numerals[numeralIdx], book_stats)
    /\ UNCHANGED <<scriptVars, mergeVars, splitVars, populateVars, extracted>>
    /\ UNCHANGED <<pc, corpus, character_data, books, numeralIdx, matched, seen_quotes,
                   book_stats, dedup_seen, dedup_debug, quotes, errors, last, saved>>

\* process_books has gone through roman_numerals
FinishBooks ==
    /\ pc = "process" /\ patternIdx = 0
    /\ RemainingNumerals(numeralIdx) = {}
    /\ pc' = "save"
    /\ UNCHANGED <<scriptVars, mergeVars, splitVars, populateVars, extracted>>
    /\ UNCHANGED <<corpus, character_data, books, numeralIdx, patternIdx, matched,
                   seen_quotes, book_stats, stats, dedup_seen, dedup_debug, quotes,
                   errors, last, saved>>

\* save_data, then "Processing completed successfully"
SaveData ==
    /\ pc = "save"
    /\ saved' = TRUE
    /\ pc' = "done"
    /\ UNCHANGED <<scriptVars, mergeVars, splitVars, populateVars, extracted>>
    /\ UNCHANGED <<corpus, character_data, books, numeralIdx, patternIdx, matched,
                   seen_quotes, book_stats, stats, dedup_seen, dedup_debug, quotes,
                   errors, last>>

Next ==
    \/ SplitIntoBooks
    \/ EnterBook
    \/ HandleMatch
    \/ EndBook
    \/ FinishBooks
    \/ SaveData

Spec == Init /\ [][Next]_vars

-----------------------------------------------------------------------------
(* scripts/extract_all_quotes.py: extract_quotes_from_file and the         *)
(* resolve_speaker of the script.                                          *)

IGNORE_NAMES ==
    {"The", "Then", "When", "Thus", "For", "But", "And", "So", "If",
     "Sardis", "Athens", "Sparta", "Hellas", "Egypt", "Persia", "Babylon",
     "Lacedemonians", "Corinthians", "Athenians", "Persians", "Medes", "Paionians",
     "Ionians", "Myrkinos", "Hellespont", "Ionia", "Asia", "Europe", "Libya", "Delphi"}

BLACKLIST ==
    {"Accordingly", "Being", "De", "He", "She", "They", "It", "Now",
     "Then", "Thus", "Therefore", "Since", "Surely", "What", "With",
     "To", "Didst", "Having", "Unknown", "Deity", "State", "Oracle",
     "Epic", "Poet", "Barbarians", "Hellenes",
     "Here", "There", "But", "For", "If", "When",
     "Upon", "In", "How", "Come"}

\* the alternatives of (?:answered|said|spoke|replied|asked)
ScriptVerbs == {"answered", "said", "spoke", "replied", "asked"}

Unknown == "Unknown"

\* whether sub stands in s at position i
At(s, i, sub) ==
    i >= 1 /\ i + Len(sub) - 1 <= Len(s) /\ SubSeq(s, i, i + Len(sub) - 1) = sub

\* the number of characters of cs that s holds in a row from position i on
RunLen(s, cs, i) ==
    IF i > Len(s) THEN 0
    ELSE CHOOSE n \in 0..(Len(s) - i + 1) :
            /\ \A j \in i..(i + n - 1) : Ch(s, j) \in cs
            /\ Ch(s, i + n) \notin cs

\* [A-Z][a-z]+ at position i: the length of the match, 0 if there is none
NameLen(s, i) ==
    IF Ch(s, i) \in UpperChars /\ Ch(s, i + 1) \in LowerChars
    THEN 1 + RunLen(s, LowerChars, i + 1)
    ELSE 0

NameAt(s, i) == SubSeq(s, i, i + NameLen(s, i) - 1)

VerbAt(s, i) == \E v \in ScriptVerbs : At(s, i, v)

\* \s+(?:verb) from position k
SpacedVerbAt(s, k) ==
    LET w == RunLen(s, SpaceChars, k)
    IN  w >= 1 /\ VerbAt(s, k + w)

\* (?:\s+\d+)?\s+(?:verb) from position k
FootnotedVerbAt(s, k) ==
    \/ SpacedVerbAt(s, k)
    \/ LET w == RunLen(s, SpaceChars, k)
           d == RunLen(s, DigitChars, k + w)
       IN  w >= 1 /\ d >= 1 /\ SpacedVerbAt(s, k + w + d)

StopWord(name) == name \in IGNORE_NAMES \/ name \in BLACKLIST

\* the loop over reversed(re.finditer("Name verb")): the name of the last
\* match whose name is no stop word, None if there is none
SpeakerBeforeVerb(context, footnote) ==
    LET at == {i \in 1..Len(context) :
                  /\ NameLen(context, i) >= 1
                  /\ IF footnote
                     THEN FootnotedVerbAt(context, i + NameLen(context, i))
                     ELSE SpacedVerbAt(context, i + NameLen(context, i))
                  /\ ~StopWord(NameAt(context, i))}
    IN  IF at = {} THEN None
        ELSE NameAt(context, CHOOSE i \in at : \A j \in at : j <= i)

\* re.match(r'^([A-Z][a-z]+), ', text): group 1, None without a match
LeadingName(text) ==
    IF NameLen(text, 1) >= 1 /\ At(text, NameLen(text, 1) + 1, ", ")
    THEN NameAt(text, 1)
    ELSE None

\* resolve_speaker of the script
script_resolve_speaker(text, context_before, current_speaker) ==
    IF LeadingName(text) # None /\ SpeakerBeforeVerb(context_before, FALSE) # None
    THEN SpeakerBeforeVerb(context_before, FALSE)
    ELSE current_speaker

LookBack == 200
PassiveWindow == 5

\* "Strategy 3": the last verb, and before it the last capitalized word that
\* is no stop word and has no "by " right before it
SpeakerNearVerb(immediate_context) ==
    LET verbs == {i \in 1..Len(immediate_context) : VerbAt(immediate_context, i)}
    IN  IF verbs = {} THEN Unknown
        ELSE LET verb_start == CHOOSE i \in verbs : \A j \in verbs : j <= i
                 lookback_text == SubSeq(immediate_context, Max(1, verb_start - LookBack),
                                         verb_start - 1)
                 preceding_text(i) ==
                     Lower(SubSeq(lookback_text, Max(1, i - PassiveWindow), i - 1))
                 candidates == {i \in 1..Len(lookback_text) :
                                   /\ NameLen(lookback_text, i) >= 1
                                   /\ ~StopWord(NameAt(lookback_text, i))
                                   /\ ~Contains(preceding_text(i), "by ")}
             IN  IF candidates = {} THEN Unknown
                 ELSE NameAt(lookback_text,
                             CHOOSE i \in candidates : \A j \in candidates : j <= i)

\* "Attempt to identify speaker from context_before": strategies 1 and 2,
\* then strategy 3
IdentifySpeaker(immediate_context) ==
    IF SpeakerBeforeVerb(immediate_context, TRUE) # None
    THEN SpeakerBeforeVerb(immediate_context, TRUE)
    ELSE SpeakerNearVerb(immediate_context)

\* re.sub(r'\[.*?\]', '', text): a match runs from a "[" to the first "]"
\* after it and holds no line break
RemoveBracketed(s) ==
    LET opens  == Positions(s, "[")
        closes == Positions(s, "]")
        end(k) == CHOOSE e \in closes : e > k /\ \A c \in closes : c <= k \/ c >= e
        match(k) == /\ \E e \in closes : e > k
                    /\ \A j \in k..end(k) : Ch(s, j) # "\n"
    IN  IF opens = {} \/ closes = {} THEN s
        ELSE Without(s, UNION {k..end(k) : k \in {o \in opens : match(o)}})

WordChars == UpperChars \cup LowerChars \cup DigitChars \cup {"_"}

\* re.sub(r'\(\w\)', '', text)
RemoveMarkers(s) ==
    LET starts == {k \in Positions(s, "(") : Ch(s, k + 1) \in WordChars /\ Ch(s, k + 2) = ")"}
    IN  IF starts = {} THEN s ELSE Without(s, UNION {k..(k + 2) : k \in starts})

\* clean_text of the script
clean_text(text) ==
    LET unbracketed == RemoveBracketed(text)
        undigited   == Without(unbracketed,
                               {i \in 1..Len(unbracketed) : Ch(unbracketed, i) \in DigitChars})
    IN  Strip(CollapseSpace(RemoveMarkers(undigited)), SpaceChars)

MinQuoteLen == 30
ContextChars == 300
ContextKept == 200

\* s[-n:]
LastChars(s, n) == SubSeq(s, Max(1, Len(s) - n + 1), Len(s))

\* "Filter out low quality quotes"
LowQuality(cleaned_text) ==
    \/ Len(cleaned_text) < MinQuoteLen
    \/ Ch(cleaned_text, 1) \in LowerChars
    \/ Contains(cleaned_text, "Editors read")

\* the decimal digits of a natural number, and f"{n:02d}"
RECURSIVE Decimal(_)
Decimal(n) == IF n < 10 THEN Ch(DigitAlpha, n + 1) ELSE Decimal(n \div 10) \o Ch(DigitAlpha, (n % 10) + 1)

TwoDigits(n) == IF n < 10 THEN "0" \o Decimal(n) ELSE Decimal(n)

\* str.replace(' ', '_')
Underscored(s) == Concat([i \in 1..Len(s) |-> IF Ch(s, i) = " " THEN "_" ELSE Ch(s, i)])

\* the record the script appends for a quotation of text_block; of its
\* fields the id, text, speaker, book and context_before are kept
ScriptQuote(quote_text, before, book_num, count) ==
    LET context_before == Strip(LastChars(before, ContextChars), SpaceChars)
        cleaned_text   == clean_text(quote_text)
        speaker == script_resolve_speaker(
                       cleaned_text, context_before,
                       IdentifySpeaker(LastChars(context_before, ContextChars)))
    IN  [id |-> "book" \o Lower(book_num) \o "_" \o Underscored(Lower(speaker))
                    \o "_" \o TwoDigits(count),
         text |-> cleaned_text,
         speaker |-> speaker,
         book |-> book_num,
         context_before |-> LastChars(context_before, ContextKept)]

MaxScriptMatches == 2   \* quotations handled in a run of the script
MaxScriptHeaders == 2   \* "BOOK n" headers in the file

ScriptHeaderSeqs == UNION {[1..n -> {"I", "II"}] : n \in 0..MaxScriptHeaders}

TomyrisContext == "Tomyris sent a herald to Cyrus and said:"

ScriptContexts ==
    {TomyrisContext, "Then Tomyris 12 said: ", "a word sent by Tomyris was said:", ""}

ScriptQuoteTexts ==
    {"Cyrus, insatiable of blood, be not uplifted by this [1] thing",
     "Insatiable of blood (a) as thou art, I will give thee thy fill",
     "cyrus, insatiable of blood, be not uplifted",
     "Be it so"}

\* re.split(r'(BOOK [IVX]+)', content); without a header the loop reads
\* books[1] of a list of one element and raises IndexError
ScriptSplit ==
    /\ script_pc = "open"
    /\ \E headers \in ScriptHeaderSeqs :
          /\ script_books' = headers
          /\ script_pc' = IF headers = << >> THEN "raised" ELSE "blocks"
          /\ script_i' = IF headers = << >> THEN 0 ELSE 1
    /\ UNCHANGED <<script_matched, script_quotes>>
    /\ UNCHANGED <<mainVars, mergeVars, splitVars, populateVars>>

\* the body of "for match in quote_matches" for one quotation of the block
ScriptMatch ==
    /\ script_pc = "blocks"
    /\ script_matched < MaxScriptMatches
    /\ \E quote_text \in ScriptQuoteTexts, before \in ScriptContexts :
          script_quotes' =
              IF LowQuality(clean_text(quote_text)) THEN script_quotes
              ELSE Append(script_quotes,
                          ScriptQuote(quote_text, before, script_books[script_i],
                                      Len(script_quotes)))
    /\ script_matched' = script_matched + 1
    /\ UNCHANGED <<script_pc, script_books, script_i>>
    /\ UNCHANGED <<mainVars, mergeVars, splitVars, populateVars>>

\* the block has no further quotation: the loop goes to the next header
ScriptNextBlock ==
    /\ script_pc = "blocks"
    /\ script_i < Len(script_books)
    /\ script_i' = script_i + 1
    /\ UNCHANGED <<script_pc, script_books, script_matched, script_quotes>>
    /\ UNCHANGED <<mainVars, mergeVars, splitVars, populateVars>>

\* "return quotes"
ScriptReturn ==
    /\ script_pc = "blocks"
    /\ script_i = Len(script_books)
    /\ script_pc' = "returned"
    /\ UNCHANGED <<script_books, script_i, script_matched, script_quotes>>
    /\ UNCHANGED <<mainVars, mergeVars, splitVars, populateVars>>

InitScript ==
    /\ corpus = NarrowCorpus
    /\ character_data = RegistryFull
    /\ ParserStart
    /\ ScriptStart
    /\ MergeStart
    /\ SplitStart
    /\ PopulateStart

NextScript ==
    \/ ScriptSplit
    \/ ScriptMatch
    \/ ScriptNextBlock
    \/ ScriptReturn

SpecScript == InitScript /\ [][NextScript]_vars

-----------------------------------------------------------------------------
(* HerodotusParser.is_duplicate_quote and the merging of split quotes.     *)

AttributeError == "<AttributeError>"

\* the characters of the texts in the order of their code points
AsciiOrder ==
    "\t\n !\"'(),-.0123456789:;?ABCDEFGHIJKLMNOPQRSTUVWXYZ[]_abcdefghijklmnopqrstuvwxyz"

\* Python's  a < b  on strings
StrLess(a, b) ==
    LET differ == {i \in 1..Min(Len(a), Len(b)) : Ch(a, i) # Ch(b, i)}
    IN  IF differ = {} THEN Len(a) < Len(b)
        ELSE LET i == CHOOSE d \in differ : \A e \in differ : d <= e
             IN  IndexIn(AsciiOrder, Ch(a, i)) < IndexIn(AsciiOrder, Ch(b, i))

\* min(a, b) and max(a, b) on strings: the first argument when they are equal
StrMin(a, b) == IF StrLess(b, a) THEN b ELSE a
StrMax(a, b) == IF StrLess(a, b) THEN b ELSE a

Abs(n) == IF n < 0 THEN 0 - n ELSE n

\* a dict in insertion order: key in d, d[key], d[key] = value
SeenHas(seen, key) == \E k \in 1..Len(seen) : seen[k].key = key

SeenGet(seen, key) == seen[CHOOSE k \in 1..Len(seen) : seen[k].key = key].value

SeenPut(seen, key, value) ==
    IF SeenHas(seen, key)
    THEN [k \in 1..Len(seen) |-> IF seen[k].key = key THEN [key |-> key, value |-> value]
                                 ELSE seen[k]]
    ELSE Append(seen, [key |-> key, value |-> value])

continuation_markers ==
    <<"Thus having said", "Having so said", "After this", "Then", "; and">>

\* s.split(".")[-1] and s.split(".")[0]
AfterLastDot(s) ==
    LET dots == Positions(s, ".")
    IN  IF dots = {} THEN s
        ELSE SubSeq(s, (CHOOSE i \in dots : \A j \in dots : j <= i) + 1, Len(s))

BeforeFirstDot(s) ==
    LET dots == Positions(s, ".")
    IN  IF dots = {} THEN s
        ELSE SubSeq(s, 1, (CHOOSE i \in dots : \A j \in dots : i <= j) - 1)

\* HerodotusParser._is_split_quote: the loop returns in its first round, so
\* the first marker decides
is_split_quote(quote) ==
    LET marker == continuation_markers[1]
    IN  \/ Contains(AfterLastDot(quote.context_before), marker)
        \/ Contains(BeforeFirstDot(quote.context_after), marker)

MergeWindow == 1000
SameContextChars == 100

\* a merge that gives the merged Quote the confidence of the candidate
merge_split_quotes_candidate_confidence(quote, seen) ==
    IF seen = << >> THEN [returned |-> "None", via |-> "merge", seen |-> seen]
    ELSE LET existing_quote == seen[1].value
         IN  IF /\ existing_quote.speaker = quote.speaker
                /\ existing_quote.book = quote.book
                /\ Abs(Len(existing_quote.context_before) - Len(quote.context_before))
                       < MergeWindow
             THEN LET merged_text == existing_quote.text \o "\n\n" \o quote.text
                  IN  [returned |-> "True", via |-> "merge",
                       seen |-> SeenPut(seen, merged_text,
                                        [quote EXCEPT !.text = merged_text])]
             ELSE [returned |-> "False", via |-> "merge", seen |-> seen]

\* HerodotusParser._merge_split_quotes: the loop returns in its first round,
\* so the Quote stored first decides; with nothing stored the result is None
merge_split_quotes(quote, seen) ==
    IF seen = << >> THEN [returned |-> "None", via |-> "merge", seen |-> seen]
    ELSE LET existing_quote == seen[1].value
         IN  IF /\ existing_quote.speaker = quote.speaker
                /\ existing_quote.book = quote.book
                /\ Abs(Len(existing_quote.context_before) - Len(quote.context_before))
                       < MergeWindow
             THEN LET merged_text == existing_quote.text \o "\n\n" \o quote.text
                      merged_confidence == Max(existing_quote.confidence, quote.confidence)
                      merged_quote ==
                          Quote(quote.speaker, merged_text, quote.book,
                                StrMin(existing_quote.context_before, quote.context_before),
                                StrMax(existing_quote.context_after, quote.context_after),
                                quote.pattern_matched, merged_confidence)
                  IN  [returned |-> "True", via |-> "merge",
                       seen |-> SeenPut(seen, merged_text, merged_quote)]
             ELSE [returned |-> "False", via |-> "merge", seen |-> seen]

\* HerodotusParser._same_context and _is_reference
same_context(q1, q2) ==
    /\ q1.book = q2.book
    /\ SubSeq(q1.context_before, 1, Min(SameContextChars, Len(q1.context_before)))
         = SubSeq(q2.context_before, 1, Min(SameContextChars, Len(q2.context_before)))

is_reference(q1, q2) ==
    \/ q1.book # q2.book
    \/ Abs(Len(q1.context_before) - Len(q2.context_before)) > MergeWindow

\* HerodotusParser.is_duplicate_quote: what the call returns and
\* self.seen_quotes as it leaves it.  Without the attribute the call raises
\* AttributeError, and so does the use of self.references, which nothing sets.
is_duplicate_quote(quote, seen) ==
    IF seen = Absent
    THEN [returned |-> AttributeError, via |-> "absent", seen |-> seen]
    ELSE IF SeenHas(seen, quote.text) /\ same_context(SeenGet(seen, quote.text), quote)
    THEN [returned |-> IF quote.confidence < SeenGet(seen, quote.text).confidence
                       THEN "True" ELSE "False",
          via |-> "same_context", seen |-> seen]
    ELSE IF SeenHas(seen, quote.text) /\ is_reference(SeenGet(seen, quote.text), quote)
    THEN [returned |-> AttributeError, via |-> "reference", seen |-> seen]
    ELSE IF is_split_quote(quote)
    THEN merge_split_quotes(quote, seen)
    ELSE [returned |-> "False", via |-> "store", seen |-> SeenPut(seen, quote.text, quote)]

MaxFragments == 2   \* calls of is_duplicate_quote

FragmentTexts == {"Call no man happy", "until he is dead"}
FragmentContexts == {"Thus having said this he paused", "He sat. Then he went on"}
FragmentConfidences == {60000, 90000}

Fragments ==
    {Quote(speaker, text, book, before, "", "basic_quote", confidence) :
        speaker \in {"Croesus", "Solon"}, text \in FragmentTexts, book \in {"I", "II"},
        before \in FragmentContexts, confidence \in FragmentConfidences}

IsDuplicateQuote ==
    /\ merge_calls < MaxFragments
    /\ \E quote \in Fragments :
          LET r == is_duplicate_quote(quote, parser_seen)
          IN  /\ parser_seen' = r.seen
              /\ merge_last' = [quote |-> quote, returned |-> r.returned, via |-> r.via]
    /\ merge_calls' = merge_calls + 1
    /\ UNCHANGED <<mainVars, scriptVars, splitVars, populateVars>>

\* the parser as constructed, or with seen_quotes set to {} by the caller
InitMerge ==
    /\ corpus = NarrowCorpus
    /\ character_data = RegistryFull
    /\ ParserStart
    /\ ScriptStart
    /\ parser_seen \in {Absent, << >>}
    /\ merge_calls = 0
    /\ merge_last = NoCall
    /\ SplitStart
    /\ PopulateStart

NextMerge == IsDuplicateQuote

SpecMerge == InitMerge /\ [][NextMerge]_vars

-----------------------------------------------------------------------------
(* HerodotusParser.split_into_books on a text of its own.                  *)

MaxSplitHeaders == 3   \* book headers in the text given to split_into_books

SplitNumerals == {"I", "II", "IX", "X"}

SplitHeaderSeqs == UNION {[1..n -> SplitNumerals] : n \in 0..MaxSplitHeaders}

\* parser.split_into_books(text) on a parser as constructed
SegmentText ==
    /\ pc = "split"
    /\ ~segmented.called
    /\ segmented' = [called |-> TRUE, books |-> split_into_books(text_headers)]
    /\ UNCHANGED text_headers
    /\ UNCHANGED <<mainVars, scriptVars, mergeVars, populateVars>>

InitSplit ==
    /\ corpus = NarrowCorpus
    /\ character_data = RegistryFull
    /\ ParserStart
    /\ ScriptStart
    /\ MergeStart
    /\ text_headers \in SplitHeaderSeqs
    /\ segmented = NotSegmented
    /\ PopulateStart

NextSplit == SegmentText

SpecSplit == InitSplit /\ [][NextSplit]_vars

-----------------------------------------------------------------------------
(* src/populate_quotes.py: main() on the list parse_quotes_file returns.    *)

\* dict.get(key, default) on a record
Get(q, key, default) == IF key \in DOMAIN q THEN q[key] ELSE default

\* re.sub(r'\s\d+\s', ' ', s) from position i on: a whitespace character,
\* one or more digits and a whitespace character become one blank, and the
\* search goes on after the match
RECURSIVE RemoveNumbersFrom(_, _)
RemoveNumbersFrom(s, i) ==
    IF i > Len(s) THEN ""
    ELSE LET n == DigitRun(SubSeq(s, i + 1, Len(s)))
         IN  IF Ch(s, i) \in SpaceChars /\ n >= 1 /\ Ch(s, i + n + 1) \in SpaceChars
             THEN " " \o RemoveNumbersFrom(s, i + n + 2)
             ELSE Ch(s, i) \o RemoveNumbersFrom(s, i + 1)

\* clean_text of populate_quotes
populate_clean_text(text) ==
    IF text = "" THEN ""
    ELSE Strip(CollapseSpace(RemoveNumbersFrom(RemoveBracketed(text), 1)), SpaceChars)

\* str.replace(old, new) from position i on, for a non-empty old
RECURSIVE ReplaceFrom(_, _, _, _)
ReplaceFrom(s, old, new, i) ==
    IF i > Len(s) THEN ""
    ELSE IF At(s, i, old) THEN new \o ReplaceFrom(s, old, new, i + Len(old))
    ELSE Ch(s, i) \o ReplaceFrom(s, old, new, i + 1)

Replace(s, old, new) == ReplaceFrom(s, old, new, 1)

EndsWith(s, p) == Len(s) >= Len(p) /\ SubSeq(s, Len(s) - Len(p) + 1, Len(s)) = p

PopulateMinLen == 30
IdealMinLen == 50
IdealMaxLen == 600
SelectLimit == 50

\* "Select high quality ones": the tests a quote of Book I or II has to pass
QualityQuote(q) ==
    LET text == Strip(Get(q, "text", ""), SpaceChars)
    IN  /\ text # ""
        /\ ~EndsWith(text, ":")
        /\ ~Contains(text, "Editors read") /\ ~Contains(text, "MSS.")
        /\ Len(text) >= PopulateMinLen
        /\ Ch(text, 1) \notin LowerChars
        /\ ~StartsWith(text, "He thus inquired")

IdealQuote(q) ==
    IdealMinLen < Len(Get(q, "text", "")) /\ Len(Get(q, "text", "")) < IdealMaxLen

\* seq[:n]
Take(seq, n) == SubSeq(seq, 1, Min(n, Len(seq)))

\* main's selected_quotes for the list raw
select_quotes(raw) ==
    LET target_quotes  == SelectSeq(raw, LAMBDA q : Get(q, "book", None) \in {"I", "II"})
        quality_quotes == SelectSeq(target_quotes, QualityQuote)
        ideal_quotes   == SelectSeq(quality_quotes, IdealQuote)
    IN  IF Len(ideal_quotes) < SelectLimit
        THEN Take(quality_quotes, SelectLimit)
        ELSE Take(ideal_quotes, SelectLimit)

\* the record main appends for q when speaker_counts is counts (of its
\* fields the tags are left out), and speaker_counts after it
final_quote(q, counts) ==
    LET speaker      == Get(q, "speaker", Unknown)
        book         == Get(q, "book", "I")
        speaker_slug == Underscored(Lower(speaker))
        count        == (IF speaker_slug \in DOMAIN counts THEN counts[speaker_slug] ELSE 0) + 1
    IN  [record |->
            [id |-> "book" \o Lower(book) \o "_" \o speaker_slug \o "_" \o TwoDigits(count),
             text |-> populate_clean_text(Get(q, "text", "")),
             speaker |-> speaker,
             book |-> book,
             context_before |-> populate_clean_text(Get(q, "context_before", "")),
             context_after |-> populate_clean_text(Get(q, "context_after", ""))],
         counts |-> Put(counts, speaker_slug, count)]

\* one of the "Manual fixes for known attribution errors"
manual_fix(q, marker, speaker, old, new) ==
    IF Contains(q.text, marker)
    THEN [q EXCEPT !.speaker = speaker, !.id = Replace(@, old, new)]
    ELSE q

\* the four fixes, in the order of the loop body
manual_fixes(q) ==
    LET q1 == manual_fix(q, "My father, in times past the fairest", "Atys", "croesus", "atys")
        q2 == manual_fix(q1, "By what death, Harpagos", "Astyages", "artembares", "astyages")
        q3 == manual_fix(q2, "Son of Cambyses, over thee the gods keep guard", "Harpagos",
                         "astyages", "harpagos")
    IN  manual_fix(q3, "Cyrus, insatiable of blood", "Tomyris", "cyrus", "tomyris")

MaxRawQuotes == 3   \* quotes in the list parse_quotes_file returns

AtysText == "My father, in times past the fairest and noblest part was ours"
PlainText == "Call no man happy 12 until he is dead [1] my friend"
TomyrisText == "Cyrus, insatiable of blood, be not uplifted by this thing"

RawQuote(speaker, book, text) ==
    [speaker |-> speaker, book |-> book, text |-> text,
     context_before |-> "Then 7 he [2] said", context_after |-> ""]

RawQuotes ==
    {RawQuote("Atys", "I", PlainText), RawQuote("Croesus", "I", AtysText),
     RawQuote("King Croesus", "II", PlainText), RawQuote("Cyrus", "I", TomyrisText),
     RawQuote("Croesus", "III", PlainText), RawQuote("Croesus", "I", "Not yet"),
     [book |-> "I", text |-> PlainText]}

RawQuoteSeqs == UNION {[1..n -> RawQuotes] : n \in 0..MaxRawQuotes}

\* main filters the list it has read and selects from it
SelectQuotes ==
    /\ populate_pc = "read"
    /\ selected_quotes' = select_quotes(raw_quotes)
    /\ populate_pc' = "generate"
    /\ UNCHANGED <<raw_quotes, final_quotes, speaker_counts, fixed, written>>
    /\ UNCHANGED <<mainVars, scriptVars, mergeVars, splitVars>>

\* the loop over selected_quotes appends the record of the next quote
GenerateId ==
    /\ populate_pc = "generate"
    /\ Len(final_quotes) < Len(selected_quotes)
    /\ LET f == final_quote(selected_quotes[Len(final_quotes) + 1], speaker_counts)
       IN  /\ final_quotes' = Append(final_quotes, f.record)
           /\ speaker_counts' = f.counts
    /\ UNCHANGED <<populate_pc, raw_quotes, selected_quotes, fixed, written>>
    /\ UNCHANGED <<mainVars, scriptVars, mergeVars, splitVars>>

\* the loop of the manual fixes visits the next record
ManualFix ==
    /\ populate_pc = "generate"
    /\ Len(final_quotes) = Len(selected_quotes)
    /\ fixed < Len(final_quotes)
    /\ final_quotes' = [final_quotes EXCEPT ![fixed + 1] = manual_fixes(@)]
    /\ fixed' = fixed + 1
    /\ UNCHANGED <<populate_pc, raw_quotes, selected_quotes, speaker_counts, written>>
    /\ UNCHANGED <<mainVars, scriptVars, mergeVars, splitVars>>

\* json.dump(final_quotes, f)
WriteQuotes ==
    /\ populate_pc = "generate"
    /\ Len(final_quotes) = Len(selected_quotes)
    /\ fixed = Len(final_quotes)
    /\ written' = final_quotes
    /\ populate_pc' = "written"
    /\ UNCHANGED <<raw_quotes, selected_quotes, final_quotes, speaker_counts, fixed>>
    /\ UNCHANGED <<mainVars, scriptVars, mergeVars, splitVars>>

InitPopulate ==
    /\ corpus = NarrowCorpus
    /\ character_data = RegistryFull
    /\ ParserStart
    /\ ScriptStart
    /\ MergeStart
    /\ SplitStart
    /\ populate_pc = "read"
    /\ raw_quotes \in RawQuoteSeqs
    /\ selected_quotes = << >>
    /\ final_quotes = << >>
    /\ speaker_counts = EmptyMap
    /\ fixed = 0
    /\ written = << >>

NextPopulate ==
    \/ SelectQuotes
    \/ GenerateId
    \/ ManualFix
    \/ WriteQuotes

SpecPopulate == InitPopulate /\ [][NextPopulate]_vars

-----------------------------------------------------------------------------
(* The emitted list of a run.                                              *)

SameText(a, b) == a.book = b.book /\ a.text = b.text

\* C1: after any run of process_books, the emitted list self.quotes never
\* holds two Quotes with the same book, the same speaker and the same text.
NoRepeatedQuote ==
    \A i, j \in 1..Len(quotes) :
        SameText(quotes[i], quotes[j]) /\ quotes[i].speaker = quotes[j].speaker => i = j

\* a candidate whose speaker and text the book has emitted already has come
\* up again and has been skipped
RepeatedCandidateSkipped ==
    /\ last.outcome = "duplicate"
    /\ \E i \in 1..Len(quotes) :
          /\ quotes[i].book = roman_numerals[numeralIdx]
          /\ quotes[i].speaker = last.resolved
          /\ quotes[i].text = last.quote

\* C2: of two accepted candidates of one book with the same cleaned text,
\* different speakers and different confidences (0.9 and 0.6), arriving in
\* either order, the final emitted set holds the Quote of the higher
\* confidence and does not hold the Quote of the lower one.
OnlyWinnerEmitted ==
    pc = "done" =>
        \A i, j \in 1..Len(quotes) :
            SameText(quotes[i], quotes[j]) /\ quotes[i].speaker # quotes[j].speaker
                => quotes[i].confidence = quotes[j].confidence

\* C3: when the same cleaned text with the same speaker is accepted once in
\* one book and once in a later book, is_duplicate returns False for the
\* second one and the emitted list then holds both Quotes, which differ in
\* book only (and context).
CrossBookStep ==
    \A t \in DOMAIN dedup_seen :
        ( /\ matched' = matched + 1
          /\ last'.outcome \in {"emitted", "discarded"}
          /\ last'.quote = t
          /\ dedup_seen[t].speaker = last'.resolved
          /\ dedup_seen[t].book # roman_numerals[numeralIdx] )
        => /\ last'.outcome = "emitted"
           /\ Len(quotes') = Len(quotes) + 1
           /\ SubSeq(quotes', 1, Len(quotes)) = quotes
           /\ quotes'[Len(quotes')].speaker = dedup_seen[t].speaker
           /\ quotes'[Len(quotes')].text = dedup_seen[t].text
           /\ quotes'[Len(quotes')].book = roman_numerals[numeralIdx]
           /\ \E i \in 1..Len(quotes) : quotes[i] = dedup_seen[t]

\* C3: every step keeps CrossBookStep: a text accepted with one speaker in
\* two books is emitted for both books.
CrossBookRepetitionKept == [][CrossBookStep]_vars

\* the emitted list holds a Quote of Book I and one of Book II with the same
\* speaker and the same text
CrossBookPairEmitted ==
    \E i, j \in 1..Len(quotes) :
        /\ quotes[i].book = "I" /\ quotes[j].book = "II"
        /\ quotes[i].speaker = quotes[j].speaker
        /\ quotes[i].text = quotes[j].text

\* C4: every emitted Quote has a text whose first character is uppercase.
FirstCharacterUppercase ==
    \A i \in 1..Len(quotes) : Ch(quotes[i].text, 1) \in UpperChars

\* C5: every emitted Quote has a text of at least 4 words and with as many
\* opening as closing brackets.
LongEnoughAndBalanced ==
    \A i \in 1..Len(quotes) :
        /\ WordCount(quotes[i].text) >= 4
        /\ CountCh(quotes[i].text, "[") = CountCh(quotes[i].text, "]")

\* a candidate of fewer than 4 words has been rejected by the validation
ShortCandidateRejected ==
    /\ last.outcome = "invalid"
    /\ WordCount(last.quote) < 4
    /\ quotes = << >>

-----------------------------------------------------------------------------
(* Canonical speaker tokens, a text without headers, a failing match.      *)

\* C8: a raw speaker token that is already a canonical name resolves to that
\* same name whatever the context, the scorer takes no speaker-resolution
\* penalty (neither x0.95 nor x0.85) off the candidate, and resolving the
\* result again returns it unchanged.
CanonicalTokenUnchanged ==
    (last.outcome \notin {"none", "invalid"} /\ last.speaker \in CanonicalNames(character_data))
        => /\ last.outcome \in {"emitted", "discarded", "duplicate"}
           /\ last.resolved = last.speaker
           /\ resolve_speaker(last.resolved, last.context, character_data) = {last.resolved}
           /\ last.outcome # "duplicate"
                 => last.confidence = context_boost(base_confidence(last.pattern), last.context)

\* a candidate whose token is a canonical name has been scored and emitted
\* from a pattern of base weight below 1.0
CanonicalTokenEmitted ==
    /\ last.outcome = "emitted"
    /\ last.speaker \in CanonicalNames(character_data)
    /\ last.pattern = "quote_first"
    /\ last.confidence = QuoteFirstWeight

\* C9: when the text holds no book header, the run is aborted: no output is
\* saved and the run does not end as completed successfully.
NoHeaderAbortsRun ==
    (pc # "split" /\ DOMAIN books = {}) => (~saved /\ pc # "done")

\* C10: an exception raised while one match is handled is recorded with the
\* pattern name and the first 100 characters of the match; the match emits
\* no Quote, the Quotes emitted earlier are kept, and the loop over the
\* matches and patterns of the book goes on.
ErrorStep ==
    Len(errors') # Len(errors)
        => /\ last'.outcome = "error"
           /\ errors' = Append(errors,
                               [pattern |-> quote_patterns[patternIdx'],
                                error   |-> errors'[Len(errors')].error,
                                text    |-> SubSeq(last'.match, 1,
                                                   Min(100, Len(last'.match)))])
           /\ quotes' = quotes
           /\ seen_quotes' = seen_quotes
           /\ pc' = "process" /\ numeralIdx' = numeralIdx /\ patternIdx' >= patternIdx

\* C10: every step keeps ErrorStep: a failing match is recorded, the Quotes
\* emitted before it stay, and the run goes on to the later matches.
MatchErrorIsolated == [][ErrorStep]_vars

\* in a text of one book a match of basic_quote longer than 100 characters
\* has raised, a Quote of the book is in the list, and a match of the later
\* pattern quote_first has been handled after it
LaterPatternAfterError ==
    /\ DOMAIN books = {"I"}
    /\ Len(errors) = 1
    /\ errors[1].pattern = "basic_quote"
    /\ Len(errors[1].text) = 100
    /\ Len(quotes) = 1
    /\ last.pattern = "quote_first" /\ last.outcome = "discarded"

-----------------------------------------------------------------------------
(* The addressee of a quotation.                                           *)

\* C6: a quotation that begins with a name and a comma ("Cyrus, insatiable
\* of blood...") with the context "Tomyris sent a herald to Cyrus and said:"
\* gets the speaker Tomyris and not the leading name Cyrus; in general the
\* leading name is not returned as speaker when the context names another
\* character as the one who spoke.
AddresseeNotSpeaker ==
    \A i \in 1..Len(script_quotes) :
        LET q == script_quotes[i]
            named == {k \in 1..Len(q.context_before) :
                         /\ NameLen(q.context_before, k) >= 1
                         /\ ~StopWord(NameAt(q.context_before, k))
                         /\ NameAt(q.context_before, k) # LeadingName(q.text)}
        IN  /\ (LeadingName(q.text) = "Cyrus" /\ q.context_before = TomyrisContext)
                  => q.speaker = "Tomyris"
            /\ ( /\ LeadingName(q.text) # None
                 /\ named # {}
                 /\ \E k \in 1..Len(q.context_before) : VerbAt(q.context_before, k) )
                  => q.speaker # LeadingName(q.text)

-----------------------------------------------------------------------------
(* Merged fragments.                                                       *)

\* C7: whenever _merge_split_quotes merges a candidate into a stored Quote
\* of the same speaker and book, the merged Quote's confidence is the
\* maximum of the two confidences, so below neither, and the merged text
\* contains both texts.
MergeKeepsMaxConfidence ==
    (merge_last.via = "merge" /\ merge_last.returned = "True")
        => \E k, n \in 1..Len(parser_seen) :
              LET existing == parser_seen[k].value
                  merged   == parser_seen[n].value
                  quote    == merge_last.quote
              IN  /\ existing.speaker = quote.speaker /\ existing.book = quote.book
                  /\ merged.speaker = quote.speaker /\ merged.book = quote.book
                  /\ merged.text = existing.text \o "\n\n" \o quote.text
                  /\ Contains(merged.text, existing.text)
                  /\ Contains(merged.text, quote.text)
                  /\ merged.confidence = Max(existing.confidence, quote.confidence)
                  /\ merged.confidence >= existing.confidence
                  /\ merged.confidence >= quote.confidence

\* a candidate of confidence 0.6 has been merged into a stored Quote of
\* confidence 0.9
LowerFragmentMerged ==
    /\ merge_last.via = "merge" /\ merge_last.returned = "True"
    /\ merge_last.quote.confidence = 60000
    /\ parser_seen[1].value.confidence = 90000
    /\ Len(parser_seen) = 2

-----------------------------------------------------------------------------
(* The weights of the catalog.                                             *)

DirectPatterns == {"basic_quote", "quote_first", "then_thus"}

\* C11: in a run that emits a Quote from a direct-attribution pattern
\* (basic_quote, quote_first or then_thus) and a Quote from the pattern
\* delayed_attribution_action, the confidence of the direct one is greater
\* than or equal to the confidence of the delayed one.
DirectNotBelowDelayed ==
    \A i, j \in 1..Len(quotes) :
        ( /\ quotes[i].pattern_matched \in DirectPatterns
          /\ quotes[j].pattern_matched = "delayed_attribution_action" )
        => quotes[i].confidence >= quotes[j].confidence

\* the names of the patterns of get_delayed_attribution_patterns
LowPrecisionPatterns ==
    {delayed_attribution_patterns[i].name : i \in 1..Len(delayed_attribution_patterns)}

\* C12: for each of the eight low-precision patterns, the base confidence
\* the scorer uses for a candidate of the pattern is the weight the catalog
\* gives the pattern, a value below 0.9: the confidence of the candidate is
\* that weight with the resolution penalty and the context boost applied.
CatalogWeightIsBase ==
    (last.outcome \in {"emitted", "discarded"} /\ last.pattern \in LowPrecisionPatterns)
        => /\ 10 * delayed_weight(last.pattern) < 9 * ConfUnit
           /\ last.confidence =
                 context_boost(
                     resolution_penalty(delayed_weight(last.pattern), last.speaker,
                                        last.resolved, character_data),
                     last.context)

-----------------------------------------------------------------------------
(* The speaker of an emitted Quote.                                        *)

\* C13: the speaker of every emitted Quote is a canonical name, the "name"
\* of a record of the registry, never a variation: a token that is a
\* variation is mapped to the canonical name or its candidate is not emitted.
SpeakerIsCanonical ==
    \A i \in 1..Len(quotes) : quotes[i].speaker \in CanonicalNames(character_data)

\* C14: a candidate for which no resolution step yields a speaker is
\* dropped: it is never emitted, under no placeholder speaker either.
NoPlaceholderSpeaker ==
    \A i \in 1..Len(script_quotes) : script_quotes[i].speaker # Unknown

-----------------------------------------------------------------------------
(* The books of a run.                                                     *)

\* C15: process_books calls extract_quotes exactly once for every Book that
\* split_into_books has produced, in ascending order of the numerals, and no
\* Book is left unprocessed.  (Within a book the patterns are taken in the
\* order of quote_patterns: patternIdx never decreases.)
EveryBookExtractedOnce ==
    pc \in {"save", "done"} =>
        /\ \A n \in DOMAIN books :
              Cardinality({i \in 1..Len(extracted) : extracted[i] = n}) = 1
        /\ \A i \in 1..Len(extracted) : extracted[i] \in DOMAIN books
        /\ \A i, j \in 1..Len(extracted) :
              i < j => \E a, b \in 1..Len(roman_numerals) :
                          /\ roman_numerals[a] = extracted[i]
                          /\ roman_numerals[b] = extracted[j]
                          /\ a < b

-----------------------------------------------------------------------------
(* Continuation fragments in a run.                                        *)

\* C16: in a run, every accepted candidate is tested as a continuation
\* fragment and, if it is one, offered to the merge step before the unseen /
\* exact-duplicate / attribution-conflict / cross-book decision is taken;
\* a candidate that is merged is not also emitted as a separate Quote.
FragmentOfferedToMerge ==
    ( /\ last.outcome \in {"emitted", "discarded"}
      /\ is_split_quote([context_before |-> last.context, context_after |-> ""]) )
    => /\ merge_last.via = "merge"
       /\ merge_last.quote.text = last.quote
       /\ merge_last.returned = "True" => last.outcome # "emitted"

-----------------------------------------------------------------------------
(* The fragment test and the seen-quote map after a merge.                 *)

\* one of the five markers stands in the last sentence of the context before
\* the Quote or in the first sentence of the context after it
AnyMarker(quote) ==
    \E k \in 1..Len(continuation_markers) :
        \/ Contains(AfterLastDot(quote.context_before), continuation_markers[k])
        \/ Contains(BeforeFirstDot(quote.context_after), continuation_markers[k])

\* C17: _is_split_quote returns True for a Quote when any one of the five
\* continuation markers occurs in the last sentence of its context-before or
\* the first sentence of its context-after, and False only when none of the
\* five occurs there.  (A candidate whose text is not stored yet goes to the
\* merge step when the test returns True and is stored when it returns False.)
AnyMarkerMakesFragment ==
    /\ merge_last.via = "merge" => AnyMarker(merge_last.quote)
    /\ merge_last.via = "store" => ~AnyMarker(merge_last.quote)

\* C18: after a successful merge the merged Quote has replaced the earlier
\* entry: the seen-quote map holds the merged Quote and no longer holds the
\* unmerged original it was built from.
MergedReplacesOriginal ==
    (merge_last.via = "merge" /\ merge_last.returned = "True")
        => \E n \in 1..Len(parser_seen) :
              LET merged   == parser_seen[n].value
                  tail     == "\n\n" \o merge_last.quote.text
                  original == SubSeq(merged.text, 1, Len(merged.text) - Len(tail))
              IN  /\ parser_seen[n].key = merged.text
                  /\ Len(merged.text) > Len(tail)
                  /\ merged.text = original \o tail
                  /\ ~SeenHas(parser_seen, original)

-----------------------------------------------------------------------------
(* The fuzzy step.                                                         *)

\* the name whose similarity to the token is above the threshold and
\* strictly greater than that of every other name, if there is one
StrictBest(speaker, data) ==
    {n \in characters(data) :
        /\ fuzz_ratio(speaker, n) > FuzzyThreshold
        /\ \A o \in characters(data) \ {n} : fuzz_ratio(speaker, o) < fuzz_ratio(speaker, n)}

\* C19: the fuzzy resolution of a token that is no registry name returns a
\* name only if the similarity of that name is above 85 and strictly greater
\* than that of every other name; when two names tie for the best similarity
\* neither is accepted by the fuzzy step (the speaker is then what the later
\* steps give), so the result does not depend on the iteration order.
FuzzyAcceptsStrictBestOnly ==
    ( /\ last.outcome \in {"emitted", "discarded", "duplicate"}
      /\ last.speaker \notin characters(character_data) )
    => \/ last.resolved \in StrictBest(last.speaker, character_data)
       \/ /\ StrictBest(last.speaker, character_data) = {}
          /\ last.resolved \in {VariationStep(last.speaker, last.context, character_data, 1),
                                ContextStep(last.context, character_data)}

-----------------------------------------------------------------------------
(* The Books of a text.                                                    *)

\* C20: split_into_books produces exactly one Book per header found in the
\* text: for n headers the collection holds n Books, Book i running from
\* header i up to header i+1 and the last Book to the end of the text, for
\* any sequence of header numerals.
OneBookPerHeader ==
    segmented.called =>
        /\ Cardinality(DOMAIN segmented.books) = Len(text_headers)
        /\ \A i \in 1..Len(text_headers) :
              \E n \in DOMAIN segmented.books :
                  /\ segmented.books[n].number = text_headers[i]
                  /\ segmented.books[n].start_pos = i
                  /\ segmented.books[n].end_pos = i + 1

-----------------------------------------------------------------------------
(* The speaker found in the context.                                       *)

\* the words of the context that are known names with a speech indicator
\* right after them
NamedSpeakers(context, data) ==
    LET words == Words(context)
    IN  {i \in 1..(Len(words) - 1) :
            /\ words[i] \in characters(data)
            /\ HasIndicator(words[i + 1], speech_indicators)}

\* C21: when the speaker is resolved from the context and the context-before
\* holds two or more known names, each with a speech-indicator verb next to
\* it, the resolved speaker is the name nearest to the quotation (the last
\* one in the window), and it is never a stoplisted word.
NearestNameWins ==
    LET words == Words(last.context)
        named == NamedSpeakers(last.context, character_data)
    IN  ( /\ last.outcome \in {"emitted", "discarded", "duplicate"}
          /\ last.pattern # "split_quote"
          /\ last.speaker \notin characters(character_data)
          /\ FuzzyBest(last.speaker, character_data) = {}
          /\ VariationStep(last.speaker, last.context, character_data, 1) = None
          /\ Cardinality(named) >= 2 )
        => /\ last.resolved = words[CHOOSE i \in named : \A j \in named : j <= i]
           /\ ~StopWord(last.resolved)

-----------------------------------------------------------------------------
(* The deduplicator across books and within one.                           *)

\* what is_duplicate does to the entry of text t in a step that hands it a
\* candidate of another book than the entry's
OtherBookStep(t) ==
    ( /\ matched' = matched + 1
      /\ last'.outcome \in {"emitted", "discarded"}
      /\ last'.quote = t
      /\ dedup_seen[t].book # roman_numerals[numeralIdx] )
    => /\ last'.outcome = "emitted"
       /\ dedup_seen'[t] = dedup_seen[t]
       /\ Len(quotes') = Len(quotes) + 1
       /\ quotes'[Len(quotes')].text = t
       /\ quotes'[Len(quotes')].speaker = last'.resolved
       /\ quotes'[Len(quotes')].book = roman_numerals[numeralIdx]

\* C22: a text recorded in QuoteDeduplicator.seen_quotes by a candidate of
\* book A keeps book A in every later step, and a later candidate with that
\* text from another book, whatever its speaker and confidence, is reported
\* not duplicate, is emitted and leaves the recorded entry as it was.
RecordedBookKept ==
    [][\A t \in DOMAIN dedup_seen :
          /\ t \in DOMAIN dedup_seen'
          /\ dedup_seen'[t].book = dedup_seen[t].book
          /\ OtherBookStep(t)]_vars

\* two candidates of Book II with one text and different speakers have both
\* been emitted while the entry recorded for the text is the one of Book I
TwoSpeakersOfLaterBook ==
    \E i, j \in 1..Len(quotes) :
        /\ quotes[i].book = "II" /\ quotes[j].book = "II"
        /\ quotes[i].text = quotes[j].text
        /\ quotes[i].speaker # quotes[j].speaker
        /\ quotes[i].text \in DOMAIN dedup_seen
        /\ dedup_seen[quotes[i].text].book = "I"

\* a counter of the statistics of the book, zero when it was never touched
Counted(bs, key) == IF key \in DOMAIN bs THEN bs[key] ELSE 0

\* what a step does with a candidate that has the text, the speaker and the
\* book of the entry the deduplicator holds for text t
ExactRepeatStep(t) ==
    ( /\ matched' = matched + 1
      /\ last'.outcome \in {"emitted", "discarded", "duplicate"}
      /\ last'.quote = t
      /\ last'.resolved = dedup_seen[t].speaker
      /\ dedup_seen[t].book = roman_numerals[numeralIdx] )
    => /\ last'.outcome = "duplicate"
       /\ <<dedup_seen[t].speaker, t>> \in seen_quotes
       /\ Counted(book_stats', "duplicate") = Counted(book_stats, "duplicate") + 1
       /\ dedup_seen' = dedup_seen
       /\ dedup_debug' = dedup_debug
       /\ quotes' = quotes

\* C23: in a run of process_books the exact-duplicate branch of is_duplicate
\* is never taken: a candidate with the text, speaker and book of the stored
\* entry is rejected by the per-book set first and counted in the
\* "duplicate" statistic of the book, the deduplicator is not called, and
\* debug_info["exact_duplicates"] stays empty.
ExactBranchNeverTaken ==
    [][/\ "exact_duplicates" \notin DOMAIN dedup_debug'
       /\ \A t \in DOMAIN dedup_seen : ExactRepeatStep(t)]_vars

\* a candidate equal in text, speaker and book to the entry the deduplicator
\* holds has just been counted as "duplicate" of the book
StoredEntryRepeated ==
    /\ last.outcome = "duplicate"
    /\ last.quote \in DOMAIN dedup_seen
    /\ dedup_seen[last.quote].speaker = last.resolved
    /\ dedup_seen[last.quote].book = roman_numerals[numeralIdx]
    /\ Counted(book_stats, "duplicate") >= 1
    /\ "exact_duplicates" \notin DOMAIN dedup_debug

\* what a step does with a candidate that has the text, the book and the
\* confidence of the entry held for text t, and another speaker
TieStep(t) ==
    ( /\ matched' = matched + 1
      /\ last'.outcome \in {"emitted", "discarded"}
      /\ last'.quote = t
      /\ dedup_seen[t].book = roman_numerals[numeralIdx]
      /\ dedup_seen[t].speaker # last'.resolved
      /\ dedup_seen[t].confidence = last'.confidence )
    => /\ last'.outcome = "emitted"
       /\ dedup_seen'[t].speaker = last'.resolved
       /\ dedup_seen'[t].book = dedup_seen[t].book
       /\ dedup_seen'[t].confidence = dedup_seen[t].confidence
       /\ quotes' = Append(quotes, dedup_seen'[t])
       /\ \E i \in 1..Len(quotes) : quotes[i] = dedup_seen[t]

-----------------------------------------------------------------------------
(* The records populate_quotes.main writes.                                *)

\* C25: the ids of the records populate_quotes.main writes are pairwise
\* distinct, whatever the list of quotes it has read, the manual fixes that
\* rewrite the speaker part of an id included.
WrittenIdsDistinct ==
    populate_pc = "written" =>
        \A i, j \in 1..Len(written) : written[i].id = written[j].id => i = j

====
